---- MODULE Spec2Model ----
(***************************************************************************)
(* Model of scripts/update_readme_from_csv.py: the CSV loader, the row     *)
(* formatter (normalize_date_for_sort, esc, build_table), the marker       *)
(* splicer (insert_between_markers) and the entry point (main), run as     *)
(* successive process invocations on the same CSV and README.              *)
(*                                                                         *)
(* A Python str is a sequence of symbols.  A symbol is one character,      *)
(* except that a fixed literal of the program that no operation looks      *)
(* inside (a sentinel, the table header, the footer's fixed words, a       *)
(* rendered timestamp) is a single symbol.  No proper suffix of a sentinel *)
(* is a prefix of a sentinel ('<' only starts one, '>' only ends one), so  *)
(* substring search for a sentinel is search for its symbol.               *)
(***************************************************************************)
EXTENDS Integers, Sequences, FiniteSets, TLC

VARIABLES csv, readme, dry_run, now, run, pc, rows, table_block,
          readme_text, new_text, out, err, writes, prev

\* csv          the CSV file at csv_path: whether it exists, its header, its rows
\* readme       the README file at readme_path: whether it exists, its text
\* dry_run      args.dry_run of this run
\* now          the UTC clock, in minutes
\* run          the number of this invocation of the script
\* pc           where main is: Start, Loaded, Formatted, then DryRunPrinted, or
\*              Spliced and then Written or Unchanged; Failed after a raise
\* rows         main's rows (build_table sorts them in place)
\* table_block, readme_text, new_text   main's locals of the same names
\* out          what this run printed last (--verbose only prints, and is left out)
\* err          the exception read_csv_rows raised, "" if none
\* writes       the calls of readme_path.write_text in this run
\* prev         where the previous run ended, with its minute and its flag
\* A field of a row is a str: csv.DictReader's None for a short row reads as ""
\* in normalize_date_for_sort and esc (d or "", s or "").

vars == <<csv, readme, dry_run, now, run, pc, rows, table_block,
          readme_text, new_text, out, err, writes, prev>>

\* Bounds of the model.
MaxRows == 2
MaxRuns == 2
MaxClock == 1

\* ---------------------------------------------------------------- str

START == <<"<!-- PROJECTS_TABLE:START -->">>
END == <<"<!-- PROJECTS_TABLE:END -->">>

NL == <<"\n">>

\* The characters str.strip(), str.lstrip() and str.rstrip() remove.
Whitespace == {" ", "\n", "\t", "\r"}

Digits == {"0", "1", "2", "3", "4", "5", "6", "7", "8", "9"}

\* ord(c) for the characters a sort key is made of.
CodePoint(c) ==
    CASE c = "-" -> 45
      [] c = "0" -> 48 [] c = "1" -> 49 [] c = "2" -> 50 [] c = "3" -> 51
      [] c = "4" -> 52 [] c = "5" -> 53 [] c = "6" -> 54 [] c = "7" -> 55
      [] c = "8" -> 56 [] c = "9" -> 57

SetMin(S) == CHOOSE x \in S : \A y \in S : x <= y
SetMax(S) == CHOOSE x \in S : \A y \in S : y <= x

\* a < b on str: lexicographic by code point, a proper prefix is smaller.
StrLess(a, b) ==
    LET n == IF Len(a) < Len(b) THEN Len(a) ELSE Len(b)
        diff == {i \in 1..n : a[i] # b[i]}
    IN IF diff = {} THEN Len(a) < Len(b)
       ELSE CodePoint(a[SetMin(diff)]) < CodePoint(b[SetMin(diff)])

lstrip(s) ==
    LET keep == {i \in 1..Len(s) : s[i] \notin Whitespace}
    IN IF keep = {} THEN <<>> ELSE SubSeq(s, SetMin(keep), Len(s))

rstrip(s) ==
    LET keep == {i \in 1..Len(s) : s[i] \notin Whitespace}
    IN IF keep = {} THEN <<>> ELSE SubSeq(s, 1, SetMax(keep))

strip(s) == lstrip(rstrip(s))

\* s.isdigit(): non-empty and every character a digit.
isdigit(s) == Len(s) > 0 /\ \A i \in 1..Len(s) : s[i] \in Digits

\* The start indexes of the occurrences of sub in text.
Occurrences(text, sub) ==
    {i \in 1..(Len(text) - Len(sub) + 1) : SubSeq(text, i, i + Len(sub) - 1) = sub}

\* sub in text
Contains(text, sub) == Occurrences(text, sub) # {}

endswith(text, suffix) ==
    /\ Len(suffix) <= Len(text)
    /\ SubSeq(text, Len(text) - Len(suffix) + 1, Len(text)) = suffix

\* text.split(sep)[0]: the text before the first occurrence of sep.
SplitFirst(text, sep) ==
    IF Contains(text, sep)
    THEN SubSeq(text, 1, SetMin(Occurrences(text, sep)) - 1)
    ELSE text

\* text.split(sep)[1], for a text that contains sep: the text between the first
\* occurrence of sep and the next one (or the end of the text).
SplitSecond(text, sep) ==
    LET first == SetMin(Occurrences(text, sep))
        rest == SubSeq(text, first + Len(sep), Len(text))
    IN SplitFirst(rest, sep)

\* s.replace("|", "\\|")
RECURSIVE ReplacePipes(_)
ReplacePipes(s) ==
    IF s = <<>> THEN <<>>
    ELSE (IF Head(s) = "|" THEN <<"\\", "|">> ELSE <<Head(s)>>) \o ReplacePipes(Tail(s))

\* "\n".join(lines)
RECURSIVE JoinLines(_)
JoinLines(lines) ==
    IF lines = <<>> THEN <<>>
    ELSE IF Len(lines) = 1 THEN lines[1]
    ELSE lines[1] \o NL \o JoinLines(Tail(lines))

\* ---------------------------------------------------------- formatter

REQUIRED_COLS == {"Project", "Date", "Tools", "Tags", "Description", "Link"}

\* What read_csv_rows does with a CSV file: raises, or returns the rows.
read_csv_rows(c) ==
    IF ~c.exists
    THEN [raised |-> "FileNotFoundError", rows |-> <<>>]
    ELSE IF {col \in REQUIRED_COLS : col \notin c.cols} # {}
    THEN [raised |-> "ValueError", rows |-> <<>>]
    ELSE [raised |-> "", rows |-> c.rows]

InvalidKey == <<"0", "0", "0", "0", "-", "0", "0">>

\* The normalization without the trim of the date.
normalize_date_untrimmed(d) ==
    IF Len(d) = 4 /\ isdigit(d)
    THEN d \o <<"-", "1", "2">>
    ELSE IF /\ Len(d) = 7
            /\ d[5] = "-"
            /\ isdigit(SubSeq(d, 1, 4))
            /\ isdigit(SubSeq(d, 6, 7))
    THEN d
    ELSE InvalidKey

normalize_date_for_sort(d) ==
    LET t == strip(d)
    IN IF Len(t) = 4 /\ isdigit(t)
       THEN t \o <<"-", "1", "2">>
       ELSE IF /\ Len(t) = 7
               /\ t[5] = "-"
               /\ isdigit(SubSeq(t, 1, 4))
               /\ isdigit(SubSeq(t, 6, 7))
       THEN t
       ELSE InvalidKey

esc(s) == strip(ReplacePipes(s))

\* r["_sort_date"] = normalize_date_for_sort(r.get("Date", ""))
WithSortDate(r) ==
    [Project |-> r.Project, Date |-> r.Date, Tools |-> r.Tools, Tags |-> r.Tags,
     Description |-> r.Description, Link |-> r.Link,
     sort_date |-> normalize_date_for_sort(r.Date)]

\* The sort step that puts r before the rows of equal key.
InsertDescUnstable(sorted, r) ==
    LET k == Cardinality({i \in 1..Len(sorted) :
                             StrLess(r.sort_date, sorted[i].sort_date)})
    IN SubSeq(sorted, 1, k) \o <<r>> \o SubSeq(sorted, k + 1, Len(sorted))

\* One step of the stable descending sort: r goes after every row whose key is
\* not smaller than its own.
InsertDesc(sorted, r) ==
    LET k == Cardinality({i \in 1..Len(sorted) :
                             ~StrLess(sorted[i].sort_date, r.sort_date)})
    IN SubSeq(sorted, 1, k) \o <<r>> \o SubSeq(sorted, k + 1, Len(sorted))

\* rows.sort(key=lambda x: x["_sort_date"], reverse=True)
RECURSIVE SortFrom(_, _)
SortFrom(sorted, rest) ==
    IF rest = <<>> THEN sorted
    ELSE SortFrom(InsertDesc(sorted, Head(rest)), Tail(rest))

SortRows(rs) == SortFrom(<<>>, [i \in 1..Len(rs) |-> WithSortDate(rs[i])])

Header ==
    <<"| Project | Date | Tools | Tags | Description |">> \o NL \o <<"|---|---|---|---|---|">>

\* The line build_table appends for one row.
RenderRow(r) ==
    LET name == esc(r.Project)
        link == esc(r.Link)
        project_md == IF link # <<>>
                      THEN <<"*", "*", "[">> \o name \o <<"]", "(">> \o link \o <<")", "*", "*">>
                      ELSE <<"*", "*">> \o name \o <<"*", "*">>
    IN <<"|", " ">> \o project_md
       \o <<" ", "|", " ">> \o esc(r.Date)
       \o <<" ", "|", " ">> \o esc(r.Tools)
       \o <<" ", "|", " ">> \o esc(r.Tags)
       \o <<" ", "|", " ">> \o esc(r.Description)
       \o <<" ", "|">>

\* dt.datetime.utcnow().strftime("%Y-%m-%d %H:%M UTC"), t the clock's minute.
strftime(t) == <<ToString(t), " UTC">>

Footer(t) == <<"_Last updated: ">> \o strftime(t) \o <<"_">>

\* The block build_table returns for the rows rs at minute t.
build_table(rs, t) ==
    LET sorted == SortRows(rs)
    IN JoinLines(<<Header>> \o [i \in 1..Len(sorted) |-> RenderRow(sorted[i])]
                 \o <<Footer(t)>>)

\* ------------------------------------------------------------ splicer

insert_between_markers(text, block, start_marker, end_marker) ==
    LET section == start_marker \o NL \o block \o NL \o end_marker
    IN IF Contains(text, start_marker) /\ Contains(text, end_marker)
       THEN LET pre == rstrip(SplitFirst(text, start_marker))
                post == lstrip(SplitSecond(text, end_marker))
            IN pre \o section \o post
       ELSE LET padded == IF text # <<>> /\ ~endswith(text, NL \o NL)
                          THEN text \o NL ELSE text
            IN padded \o NL \o section \o NL

\* ------------------------------------------------------------- inputs

Rec(project, date, tools, tags, description, link) ==
    [Project |-> project, Date |-> date, Tools |-> tools, Tags |-> tags,
     Description |-> description, Link |-> link]

\* The records a CSV is made of: a year, the same month written in full (equal
\* sort keys), a malformed date beside a pipe, the date 0000-00, a padded year
\* beside a line break inside a quoted field, and an empty date.
RecordPool ==
    { Rec(<<"A">>, <<"2", "0", "2", "1">>, <<"X">>, <<"a">>, <<"d">>, <<>>),
      Rec(<<"B">>, <<"2", "0", "2", "1", "-", "1", "2">>, <<"Y">>, <<"b">>, <<"d">>, <<"u">>),
      Rec(<<"C">>, <<"b", "a", "d">>, <<"X">>, <<"a">>, <<"p", "|", "q">>, <<>>),
      Rec(<<"D">>, <<"0", "0", "0", "0", "-", "0", "0">>, <<>>, <<>>, <<"d">>, <<>>),
      Rec(<<"E">>, <<" ", "2", "0", "2", "3", " ">>, <<"x", "\n", "y">>, <<"|", " ">>, <<>>, <<"u">>),
      Rec(<<"F">>, <<>>, <<"X">>, <<>>, <<"d">>, <<>>) }

RowSeqs == UNION {[1..n -> RecordPool] : n \in 0..MaxRows}

\* The CSV files: absent, without the Tags column, or well-formed.
CsvInputs ==
    {[exists |-> FALSE, cols |-> {}, rows |-> <<>>],
     [exists |-> TRUE, cols |-> REQUIRED_COLS \ {"Tags"}, rows |-> <<>>]}
    \cup {[exists |-> TRUE, cols |-> REQUIRED_COLS, rows |-> rs] : rs \in RowSeqs}

File(text) == [exists |-> TRUE, text |-> text]

NoFile == [exists |-> FALSE, text |-> <<>>]

\* The README files: absent, empty, without sentinels (no final newline, one,
\* two), with both sentinels (on their own lines, or tight against the text),
\* with one sentinel only, and with the sentinels in reverse order.
ReadmeInputs ==
    { NoFile,
      File(<<>>),
      File(<<"a">>),
      File(<<"a", "\n">>),
      File(<<"a", "\n", "\n">>),
      File(<<"a", "\n">> \o START \o <<"\n", "o", "\n">> \o END \o <<"\n", "b", "\n">>),
      File(<<"a">> \o START \o <<"o">> \o END \o <<"b">>),
      File(<<"a", "\n">> \o START \o <<"\n">>),
      File(END \o <<"\n", "b">>),
      File(END \o <<"\n">> \o START) }

\* ------------------------------------------------------------ entry point

Terminal == {"Failed", "DryRunPrinted", "Written", "Unchanged"}

NoRun == [pc |-> "None", now |-> 0, dry_run |-> FALSE]

Init ==
    /\ csv \in CsvInputs
    /\ readme \in ReadmeInputs
    /\ dry_run \in BOOLEAN
    /\ now = 0
    /\ run = 1
    /\ pc = "Start"
    /\ rows = <<>>
    /\ table_block = <<>>
    /\ readme_text = <<>>
    /\ new_text = <<>>
    /\ out = <<>>
    /\ err = ""
    /\ writes = 0
    /\ prev = NoRun

\* rows = read_csv_rows(csv_path)
LoadRecords ==
    /\ pc = "Start"
    /\ LET got == read_csv_rows(csv)
       IN /\ err' = got.raised
          /\ rows' = got.rows
          /\ pc' = IF got.raised = "" THEN "Loaded" ELSE "Failed"
    /\ UNCHANGED <<csv, readme, dry_run, now, run, table_block, readme_text,
                   new_text, out, writes, prev>>

\* table_block = build_table(rows): rows is sorted in place.
BuildTable ==
    /\ pc = "Loaded"
    /\ rows' = SortRows(rows)
    /\ table_block' = build_table(rows, now)
    /\ pc' = "Formatted"
    /\ UNCHANGED <<csv, readme, dry_run, now, run, readme_text, new_text, out,
                   err, writes, prev>>

\* if args.dry_run: print the block between the banners and return
DryRun ==
    /\ pc = "Formatted"
    /\ dry_run
    /\ out' = <<"----- GENERATED TABLE START -----">> \o NL \o table_block \o NL
              \o <<"----- GENERATED TABLE END -----">>
    /\ pc' = "DryRunPrinted"
    /\ UNCHANGED <<csv, readme, dry_run, now, run, rows, table_block,
                   readme_text, new_text, err, writes, prev>>

\* readme_text = "" or the file's text; new_text = insert_between_markers(...)
Splice ==
    /\ pc = "Formatted"
    /\ ~dry_run
    /\ readme_text' = IF ~readme.exists THEN <<>> ELSE readme.text
    /\ new_text' = insert_between_markers(readme_text', table_block, START, END)
    /\ pc' = "Spliced"
    /\ UNCHANGED <<csv, readme, dry_run, now, run, rows, table_block, out, err,
                   writes, prev>>

\* The write without the comparison of the new text with the old.
WriteAlways ==
    /\ pc = "Spliced"
    /\ readme' = File(new_text)
    /\ writes' = writes + 1
    /\ out' = <<"README updated from CSV.">>
    /\ pc' = "Written"
    /\ UNCHANGED <<csv, dry_run, now, run, rows, table_block, readme_text,
                   new_text, err, prev>>

\* if new_text != readme_text: write_text and report
Write ==
    /\ pc = "Spliced"
    /\ new_text # readme_text
    /\ readme' = File(new_text)
    /\ writes' = writes + 1
    /\ out' = <<"README updated from CSV.">>
    /\ pc' = "Written"
    /\ UNCHANGED <<csv, dry_run, now, run, rows, table_block, readme_text,
                   new_text, err, prev>>

\* else: report that nothing changed
NoChange ==
    /\ pc = "Spliced"
    /\ new_text = readme_text
    /\ out' = <<"No README changes detected.">>
    /\ pc' = "Unchanged"
    /\ UNCHANGED <<csv, readme, dry_run, now, run, rows, table_block,
                   readme_text, new_text, err, writes>>
    /\ UNCHANGED prev

\* The next invocation of the script, on the same CSV and README, with its own
\* --dry-run flag, in the same minute or a later one.
NextRun ==
    /\ pc \in Terminal
    /\ run < MaxRuns
    /\ run' = run + 1
    /\ prev' = [pc |-> pc, now |-> now, dry_run |-> dry_run]
    /\ dry_run' \in BOOLEAN
    /\ now' \in {t \in {now, now + 1} : t <= MaxClock}
    /\ pc' = "Start"
    /\ rows' = <<>>
    /\ table_block' = <<>>
    /\ readme_text' = <<>>
    /\ new_text' = <<>>
    /\ out' = <<>>
    /\ err' = ""
    /\ writes' = 0
    /\ UNCHANGED <<csv, readme>>

Next ==
    \/ LoadRecords
    \/ BuildTable
    \/ DryRun
    \/ Splice
    \/ Write
    \/ NoChange
    \/ NextRun

Spec == Init /\ [][Next]_vars

\* ------------------------------------------------------------ properties

Count(text, sub) == Cardinality(Occurrences(text, sub))

IsPrefix(p, text) == Len(p) <= Len(text) /\ SubSeq(text, 1, Len(p)) = p

\* The lines of a text: its pieces between line breaks.
RECURSIVE Lines(_)
Lines(text) ==
    IF ~Contains(text, NL) THEN <<text>>
    ELSE <<SplitFirst(text, NL)>>
         \o Lines(SubSeq(text, SetMin(Occurrences(text, NL)) + 1, Len(text)))

\* The text without its final line breaks.
RECURSIVE DropFinalNewlines(_)
DropFinalNewlines(text) ==
    IF text # <<>> /\ text[Len(text)] = "\n"
    THEN DropFinalNewlines(SubSeq(text, 1, Len(text) - 1))
    ELSE text

\* One start sentinel and one end sentinel, the start first.
OneRegion(text) ==
    /\ Count(text, START) = 1
    /\ Count(text, END) = 1
    /\ SetMin(Occurrences(text, START)) < SetMin(Occurrences(text, END))

\* At most one sentinel of each kind, the start first when both are there.
AtMostOneRegion(text) ==
    /\ Count(text, START) <= 1
    /\ Count(text, END) <= 1
    /\ (Contains(text, START) /\ Contains(text, END) => OneRegion(text))

Built == {"Formatted", "DryRunPrinted", "Spliced", "Written", "Unchanged"}

Finished == {"Written", "Unchanged"}

\* C1: when the document read holds each sentinel once, the start first, the
\* spliced text is the text before the start sentinel, the start sentinel, the
\* block on its own lines, the end sentinel and the text after the end
\* sentinel, the outer texts exactly as they were read.
C1_OutsidePreserved ==
    pc = "Spliced" /\ OneRegion(readme_text) =>
        LET s == SetMin(Occurrences(readme_text, START))
            e == SetMin(Occurrences(readme_text, END))
            before == SubSeq(readme_text, 1, s - 1)
            after == SubSeq(readme_text, e + Len(END), Len(readme_text))
        IN new_text = before \o START \o NL \o table_block \o NL \o END \o after

\* C2: a run that is not a dry run and follows, in the same clock minute, a
\* finished run that was not a dry run, computes the text the document already
\* holds, writes nothing and reports that nothing changed.
C2_SecondRunIsNoOp ==
    /\ prev.pc \in Finished
    /\ prev.now = now
    /\ pc \in {"Spliced"} \cup Finished
    => /\ new_text = readme_text
       /\ writes = 0
       /\ pc \in Finished => pc = "Unchanged" /\ out = <<"No README changes detected.">>

\* C3: a splice of a block without sentinel text into a document with at most
\* one sentinel of each kind (the start first when both are there) gives a
\* document with exactly one start and one end sentinel, the start first.
C3_SentinelsNotDuplicated ==
    /\ pc = "Spliced"
    /\ AtMostOneRegion(readme_text)
    /\ ~Contains(table_block, START)
    /\ ~Contains(table_block, END)
    => OneRegion(new_text)

\* C4: when a sentinel is missing from a non-empty document, the spliced text
\* starts with the document as read, and unless the document ends in a blank
\* line, the start sentinel of the new section comes after the document's last
\* line and exactly one empty line.
C4_OneBlankLineBeforeSection ==
    /\ pc = "Spliced"
    /\ readme_text # <<>>
    /\ ~(Contains(readme_text, START) /\ Contains(readme_text, END))
    => /\ IsPrefix(readme_text, new_text)
       /\ ~endswith(readme_text, NL \o NL) =>
             IsPrefix(DropFinalNewlines(readme_text) \o NL \o NL \o START \o NL
                      \o table_block \o NL \o END, new_text)

\* C10: in the text spliced from a document with no sentinel or with one
\* region, every start sentinel opens its line and every end sentinel closes
\* its line.
C10_SentinelsOnOwnLines ==
    /\ pc = "Spliced"
    /\ OneRegion(readme_text) \/ (~Contains(readme_text, START) /\ ~Contains(readme_text, END))
    => /\ \A i \in Occurrences(new_text, START) : i = 1 \/ new_text[i - 1] = "\n"
       /\ \A j \in Occurrences(new_text, END) :
             j = Len(new_text) \/ new_text[j + 1] = "\n"

\* The six fields of a CSV record, compared one by one.
SameRecord(a, b) ==
    /\ a.Project = b.Project
    /\ a.Date = b.Date
    /\ a.Tools = b.Tools
    /\ a.Tags = b.Tags
    /\ a.Description = b.Description
    /\ a.Link = b.Link

Orderings(n) == {p \in [1..n -> 1..n] : \A i, j \in 1..n : i # j => p[i] # p[j]}

\* C5: the sorted rows are the CSV's records, each once, in non-increasing
\* order of sort key, records of equal key in their CSV order; and the block is
\* the header, one rendered line per sorted row, and the footer.
C5_OneRowPerRecordStableDescending ==
    pc \in Built =>
        /\ Len(rows) = Len(csv.rows)
        /\ \E p \in Orderings(Len(rows)) :
              /\ \A i \in 1..Len(rows) : SameRecord(rows[i], csv.rows[p[i]])
              /\ \A i, j \in 1..Len(rows) :
                    i < j /\ rows[i].sort_date = rows[j].sort_date => p[i] < p[j]
        /\ \A i \in 1..(Len(rows) - 1) : ~StrLess(rows[i].sort_date, rows[i + 1].sort_date)
        /\ table_block = JoinLines(<<Header>> \o [i \in 1..Len(rows) |-> RenderRow(rows[i])]
                                   \o <<Footer(now)>>)

\* C5's case: two records with different dates and equal sort keys were sorted.
C5_Witness ==
    /\ pc = "Formatted"
    /\ Len(rows) = 2
    /\ rows[1].sort_date = rows[2].sort_date
    /\ rows[1].Date # rows[2].Date
    /\ SameRecord(rows[1], csv.rows[1])

\* The pipes of a line that no backslash comes right before.
UnescapedPipes(line) ==
    {i \in 1..Len(line) : line[i] = "|" /\ (i = 1 \/ line[i - 1] # "\\")}

\* C7: the block has one line per row between the separator row and the
\* footer, and on each of them the only pipes without a backslash right before
\* them are the six that delimit the five cells.
C7_PipesEscapedFiveCells ==
    pc \in Built =>
        LET lines == Lines(table_block)
        IN /\ Len(lines) = Len(rows) + 3
           /\ \A i \in 3..(Len(lines) - 1) : Cardinality(UnescapedPipes(lines[i])) = 6

\* C8: the block's last line is the footer and the line before it is empty.
C8_FooterOwnParagraph ==
    pc \in Built =>
        LET lines == Lines(table_block)
            last == lines[Len(lines)]
        IN /\ last[1] = "_Last updated: "
           /\ last[Len(last)] = "_"
           /\ lines[Len(lines) - 1] = <<>>

\* A date of the shape YYYY or YYYY-MM, once trimmed.
ValidShape(d) ==
    LET t == strip(d)
    IN \/ Len(t) = 4 /\ \A i \in 1..4 : t[i] \in Digits
       \/ Len(t) = 7 /\ t[5] = "-" /\ \A i \in {1, 2, 3, 4, 6, 7} : t[i] \in Digits

\* The sort key the claim gives a date.
ClaimedKey(d) ==
    LET t == strip(d)
    IN IF ValidShape(d) /\ Len(t) = 4 THEN t \o <<"-", "1", "2">>
       ELSE IF ValidShape(d) THEN t
       ELSE <<"0", "0", "0", "0", "-", "0", "0">>

Steps ==
    {<<"Start", "Loaded">>, <<"Start", "Failed">>, <<"Loaded", "Formatted">>,
     <<"Formatted", "DryRunPrinted">>, <<"Formatted", "Spliced">>,
     <<"Spliced", "Written">>, <<"Spliced", "Unchanged">>}
    \cup {<<t, "Start">> : t \in Terminal}

\* C6: the document changes only in the step from Spliced to Written, of a run
\* that loaded its records, is no dry run, spliced a text other than the one it
\* read and has not written yet; the document then holds the spliced text; a
\* run otherwise moves only along Start, Loaded, Formatted, then DryRunPrinted
\* or Spliced, then Written or Unchanged.
C6_WriteOnceOnlyWhenChanged ==
    [][ /\ pc' # pc => <<pc, pc'>> \in Steps
        /\ (pc' = pc /\ run' = run) => readme' = readme
        /\ pc' = "Start" => readme' = readme /\ run' = run + 1
        /\ writes' <= 1
        /\ (readme' # readme \/ writes' > writes \/ pc' = "Written") =>
              /\ pc = "Spliced" /\ pc' = "Written"
              /\ err = "" /\ read_csv_rows(csv).raised = ""
              /\ ~dry_run
              /\ new_text # readme_text
              /\ writes = 0 /\ writes' = 1
              /\ readme' = File(new_text)
              /\ readme' # readme
      ]_vars

\* C6's case: a run has written the document.
C6_Witness ==
    /\ pc = "Written"
    /\ writes = 1
    /\ readme = File(new_text)
    /\ new_text # readme_text

====
